---- MODULE Spec2Model ----
(***************************************************************************)
(* A model of the documentation generator: the function extractor          *)
(* (parser.py), the per-unit documentation pipeline and the Markdown       *)
(* aggregator (doc_generator.py), and the report composer with its table   *)
(* of contents (srs_generator.py).                                         *)
(*                                                                         *)
(* Text is a sequence of characters; a few fixed words that the code never *)
(* looks inside ("code", "def", "\n\n", "---", "\\newpage", ...) are kept  *)
(* as one element.                                                         *)
(***************************************************************************)
EXTENDS Integers, Sequences, FiniteSets, TLC

VARIABLES
    \* ---- parser.py: one call of extract_functions_and_docs
    x_source,          \* the parsed file (or an unparsable one)
    x_result,          \* what the call returned / raised
    xpc,
    \* ---- doc_generator.py: one call of generate_doc's prompt building
    f_template,        \* contents of prompt_template.txt
    f_code,            \* the code snippet
    f_result,          \* the prompt, or the exception raised
    fpc,
    \* ---- doc_generator.py: main
    crud_files,        \* glob result: the files, by index
    names,             \* names[i]: the base name of file i
    sources,           \* sources[i]: what file i holds
    openFails,         \* the files whose output artifact cannot be opened
    prompt_template,   \* prompt_template.txt: [readable, text]
    artifacts,         \* artifacts[n]: contents of <n>_doc.md, or NoFile
    pc,                \* position in main
    fi,                \* index of the file being processed
    functions,         \* the units extracted from the current file
    ui,                \* index of the unit being processed
    calls,             \* the calls made to model.generate_content
    errors,            \* the "Error processing" reports
    visited,           \* the files the loop has taken up ("Processing ...")
    \* ---- doc_generator.py: combine_markdown_files
    md_files,
    combined_content,
    mi,
    cpc,
    readLog,           \* per processed file: [file, ok, content]
    output_file,       \* contents of the combined file, or NoFile
    c_outcome,         \* what the caller of combine_markdown_files observes
    \* ---- doc_generator.py: the module title of combine_markdown_files
    n_filename,        \* a file name
    n_title,           \* the title derived from it
    n_again,           \* the title derived from that title
    npc,
    \* ---- srs_generator.py: create_table_of_contents
    modules,
    toc_data,
    page_num,
    ti,
    tpc,
    \* ---- srs_generator.py: generate_srs_document
    doc_files,         \* glob result: per file [name, readable, content]
    srs_template,      \* srs_prompt_template.txt: [state, text]
    documentation,     \* the dict of read_documentation_files, in insertion order
    story,             \* the flowables appended so far, by part
    si,                \* index of the module being processed
    srs_calls,         \* the calls made to model.generate_content
    srs_result,        \* what the caller of generate_srs_document observes
    spc

xvars == <<x_source, x_result, xpc>>
fvars == <<f_template, f_code, f_result, fpc>>
mvars == <<crud_files, names, sources, openFails, prompt_template, artifacts, pc, fi,
           functions, ui, calls, errors, visited>>
cvars == <<md_files, combined_content, mi, cpc, readLog, output_file, c_outcome>>
nvars == <<n_filename, n_title, n_again, npc>>
tvars == <<modules, toc_data, page_num, ti, tpc>>
svars == <<doc_files, srs_template, documentation, story, si, srs_calls, srs_result, spc>>
vars == <<xvars, fvars, mvars, cvars, tvars, nvars, svars>>

\* ------------------------------------------------------------------ bounds
MaxNodes == 3        \* syntax-tree nodes below the Module node
MaxTemplateLen == 6  \* elements of a prompt template
MaxFiles == 2        \* source files in the input directory
MaxMd == 3           \* Markdown files in the aggregator's input folder
MaxModules == 3      \* modules handed to the table of contents
MaxNameLen == 6      \* characters of a file name whose title is derived
MaxDocs == 2         \* Markdown files in the composer's input folder

\* ------------------------------------------------------------- sequences
\* All sequences over S of length at most n.
SeqsUpTo(S, n) == UNION {[1..k -> S] : k \in 0..n}

\* ================================================================ parser.py
\* A parsed file is the Module node (node 0) and nodes 1..Len(nodes) below it;
\* parent[i] < i is the node that holds node i, and the children of a node are
\* in source order.  Each node carries its class, its name, its docstring (or
\* "None") and the source text it spans.
DefKinds == {"FunctionDef", "AsyncFunctionDef"}
FunctionLike(node) == node.kind \in DefKinds

Children(src, n) ==
    LET RECURSIVE From(_)
        From(i) == IF i > Len(src.nodes) THEN <<>>
                   ELSE (IF src.parent[i] = n THEN <<i>> ELSE <<>>) \o From(i + 1)
    IN From(1)

\* ast.walk: breadth-first, a queue of nodes still to visit.
RECURSIVE ast_walk(_, _)
ast_walk(src, todo) ==
    IF todo = <<>> THEN <<>>
    ELSE <<Head(todo)>> \o ast_walk(src, Tail(todo) \o Children(src, Head(todo)))

\* isinstance(node, ast.FunctionDef)
IsFunctionDef(node) == node.kind = "FunctionDef"

FunctionRecord(node) ==
    [name |-> node.name,
     docstring |-> IF node.doc = "None" THEN "" ELSE node.doc,
     code |-> node.code]

\* The list extract_functions_and_docs returns for a file that parses.
extract_functions_and_docs(src) ==
    LET order == ast_walk(src, <<0>>)
        RECURSIVE Collect(_)
        Collect(k) ==
            IF k > Len(order) THEN <<>>
            ELSE (IF order[k] # 0 /\ IsFunctionDef(src.nodes[order[k]])
                  THEN <<FunctionRecord(src.nodes[order[k]])>> ELSE <<>>)
                 \o Collect(k + 1)
    IN Collect(1)

Names == {"f", "g"}
SourceText(kind, name) ==
    CASE kind = "FunctionDef" -> <<"def", name>>
      [] kind = "AsyncFunctionDef" -> <<"async", "def", name>>
      [] kind = "ClassDef" -> <<"class", name>>
      [] OTHER -> <<"if">>

NodeShapes ==
    {[kind |-> k, name |-> n, doc |-> "None", code |-> SourceText(k, n)] :
        k \in DefKinds \cup {"ClassDef"}, n \in Names}
    \cup {[kind |-> "FunctionDef", name |-> "f", doc |-> "text",
           code |-> SourceText("FunctionDef", "f")]}
    \cup {[kind |-> "If", name |-> "", doc |-> "None", code |-> SourceText("If", "")]}

Parents(n) == {p \in [1..n -> 0..(n - 1)] : \A i \in 1..n : p[i] < i}

Unparsable == [parses |-> FALSE, nodes |-> <<>>, parent |-> <<>>]

NotCalled == [raised |-> "-", value |-> <<>>]

\* Any file of at most MaxNodes nodes, or one that does not parse.
XInit ==
    /\ \/ x_source = Unparsable
       \/ \E n \in 0..MaxNodes :
             \E ns \in [1..n -> NodeShapes], p \in Parents(n) :
                x_source = [parses |-> TRUE, nodes |-> ns, parent |-> p]
    /\ x_result = NotCalled
    /\ xpc = "call"

\* ast.parse raises SyntaxError: nothing is returned.
ExtractRaises ==
    /\ xpc = "call"
    /\ ~x_source.parses
    /\ x_result' = [raised |-> "SyntaxError", value |-> <<>>]
    /\ xpc' = "done"
    /\ UNCHANGED x_source
    /\ UNCHANGED <<fvars, mvars, cvars, tvars, nvars, svars>>

ExtractReturns ==
    /\ xpc = "call"
    /\ x_source.parses
    /\ x_result' = [raised |-> "none", value |-> extract_functions_and_docs(x_source)]
    /\ xpc' = "done"
    /\ UNCHANGED x_source
    /\ UNCHANGED <<fvars, mvars, cvars, tvars, nvars, svars>>

XNext == ExtractRaises \/ ExtractReturns

XIdle ==
    /\ x_source = Unparsable
    /\ x_result = NotCalled
    /\ xpc = "idle"

\* ==================================================== doc_generator.py: generate_doc
\* str.format over the template: "{{" and "}}" are escaped braces, "{name}" is a
\* replacement field looked up among the keyword arguments (only code=...), "{}"
\* is positional argument 0 (there is none), any other brace is malformed.
Formatted(text) == [raised |-> "none", value |-> text]
Raised(e) == [raised |-> e, value |-> <<>>]

\* The index of the first brace of t at or after i, or 0.
RECURSIVE NextBrace(_, _)
NextBrace(t, i) ==
    IF i > Len(t) THEN 0
    ELSE IF t[i] \in {"{", "}"} THEN i ELSE NextBrace(t, i + 1)

\* The inserted text loses its braces.
FieldValueMutant(name, code) ==
    IF name = <<>> THEN Raised("IndexError")
    ELSE IF name = <<"code">> THEN Formatted(SelectSeq(code, LAMBDA c : c \notin {"{", "}"}))
    ELSE Raised("KeyError")
\* The value of the replacement field called name under format(code=code).
FieldValue(name, code) ==
    IF name = <<>> THEN Raised("IndexError")
    ELSE IF name = <<"code">> THEN Formatted(code)
    ELSE Raised("KeyError")

RECURSIVE FormatFrom(_, _, _, _)
FormatFrom(t, i, code, out) ==
    IF i > Len(t) THEN Formatted(out)
    ELSE IF t[i] = "{" THEN
        IF i < Len(t) /\ t[i + 1] = "{" THEN FormatFrom(t, i + 2, code, Append(out, "{"))
        ELSE LET j == NextBrace(t, i + 1) IN
             IF j = 0 \/ t[j] = "{" THEN Raised("ValueError")
             ELSE LET v == FieldValue(SubSeq(t, i + 1, j - 1), code) IN
                  IF v.raised # "none" THEN v
                  ELSE FormatFrom(t, j + 1, code, out \o v.value)
    ELSE IF t[i] = "}" THEN
        IF i < Len(t) /\ t[i + 1] = "}" THEN FormatFrom(t, i + 2, code, Append(out, "}"))
        ELSE Raised("ValueError")
    ELSE FormatFrom(t, i + 1, code, Append(out, t[i]))

\* prompt_template.format(code=code_snippet)
format(t, code) == FormatFrom(t, 1, code, <<>>)

\* generate_doc up to the prompt: read prompt_template.txt, then format it.
BuildPrompt(file, code) ==
    IF ~file.readable THEN Raised("FileNotFoundError")
    ELSE format(file.text, code)

TemplateChars == {"{", "}", "code", "t"}
CodeSnippets == {<<>>, <<"def", "f">>, <<"{", "code", "}">>, <<"{", "{">>, <<"}">>}

FInit ==
    /\ f_template \in [readable : BOOLEAN, text : SeqsUpTo(TemplateChars, MaxTemplateLen)]
    /\ f_template.readable \/ f_template.text = <<>>
    /\ f_code \in CodeSnippets
    /\ f_result = NotCalled
    /\ fpc = "call"

PromptBuilt ==
    /\ fpc = "call"
    /\ BuildPrompt(f_template, f_code).raised = "none"
    /\ f_result' = BuildPrompt(f_template, f_code)
    /\ fpc' = "done"
    /\ UNCHANGED <<f_template, f_code>>
    /\ UNCHANGED <<xvars, mvars, cvars, tvars, nvars, svars>>

PromptFails ==
    /\ fpc = "call"
    /\ BuildPrompt(f_template, f_code).raised # "none"
    /\ f_result' = BuildPrompt(f_template, f_code)
    /\ fpc' = "done"
    /\ UNCHANGED <<f_template, f_code>>
    /\ UNCHANGED <<xvars, mvars, cvars, tvars, nvars, svars>>

FNext == PromptBuilt \/ PromptFails

FIdle ==
    /\ f_template = [readable |-> FALSE, text |-> <<>>]
    /\ f_code = <<>>
    /\ f_result = NotCalled
    /\ fpc = "idle"

\* ============================================================ doc_generator.py: main
StartsWith(s, i, sub) ==
    /\ i + Len(sub) - 1 <= Len(s)
    /\ SubSeq(s, i, i + Len(sub) - 1) = sub

\* str.replace(old, new), old not empty
RECURSIVE ReplaceFrom(_, _, _, _)
ReplaceFrom(s, i, old, new) ==
    IF i > Len(s) THEN <<>>
    ELSE IF StartsWith(s, i, old) THEN new \o ReplaceFrom(s, i + Len(old), old, new)
    ELSE <<s[i]>> \o ReplaceFrom(s, i + 1, old, new)
replace(s, old, new) == ReplaceFrom(s, 1, old, new)

Whitespace == {" ", "\n", "\n\n"}

\* str.strip()
RECURSIVE LStrip(_)
LStrip(s) == IF s # <<>> /\ Head(s) \in Whitespace THEN LStrip(Tail(s)) ELSE s
RECURSIVE RStrip(_)
RStrip(s) ==
    IF s # <<>> /\ s[Len(s)] \in Whitespace THEN RStrip(SubSeq(s, 1, Len(s) - 1)) ELSE s
strip(s) == RStrip(LStrip(s))

\* What the source files of a run hold.
Node(kind, name, code) == [kind |-> kind, name |-> name, doc |-> "None", code |-> code]
Parsed(nodes, parent) == [parses |-> TRUE, nodes |-> nodes, parent |-> parent]
SourceFiles ==
    { Unparsable,
      Parsed(<<>>, <<>>),
      Parsed(<<Node("AsyncFunctionDef", "f", <<"async", "def", "f">>)>>, <<0>>),
      Parsed(<<Node("FunctionDef", "f", <<"def", "f", "{", "}">>)>>, <<0>>),
      Parsed(<<Node("ClassDef", "g", <<"class", "g">>),
               Node("FunctionDef", "f", <<"def", "f">>),
               Node("FunctionDef", "g", <<"def", "g">>)>>, <<0, 0, 1>>) }

\* What prompt_template.txt holds.
TemplateFiles ==
    { [readable |-> FALSE, text |-> <<>>],
      [readable |-> TRUE, text |-> <<"t", "{", "code", "}", "t">>],
      [readable |-> TRUE, text |-> <<"t">>],
      [readable |-> TRUE, text |-> <<"{", "t", "}", "{", "code", "}">>] }

\* What response.text can be.
Responses == {<<"d">>, <<" ", "d", "\n">>}

NoFile == [exists |-> FALSE, text |-> <<>>]
File(text) == [exists |-> TRUE, text |-> text]
Stale == File(<<[k |-> "stale", name |-> "", doc |-> <<>>]>>)
\* f.write(f"# Documentation for {filename}.py\n\n")
TitleLine == [k |-> "title", name |-> "", doc |-> <<>>]
\* f.write(f"## Function: `{func['name']}`\n\n"); f.write(doc + "\n\n---\n\n")
Section(name, doc) == [k |-> "section", name |-> name, doc |-> doc]

\* Base names that glob "*.py" can return.
PyNames == { <<"a", ".", "p", "y">>, <<"b", ".", "p", "y">>,
             <<"a", ".", "p", "y", ".", "p", "y">> }
\* filename = os.path.basename(crud_file).replace(".py", ""); the artifact of
\* file i is <filename>_doc.md
OutputName(i) == replace(names[i], <<".", "p", "y">>, <<>>)

MInit ==
    /\ \E n \in 0..MaxFiles :
          /\ crud_files = [i \in 1..n |-> i]
          /\ names \in {f \in [1..n -> PyNames] : \A i, j \in 1..n : f[i] = f[j] => i = j}
          /\ sources \in [1..n -> SourceFiles]
          /\ artifacts \in [{OutputName(i) : i \in 1..n} -> {NoFile, Stale}]
          /\ openFails \in SUBSET (1..n)
    /\ prompt_template \in TemplateFiles
    /\ pc = "start"
    /\ fi = 0
    /\ functions = <<>>
    /\ ui = 0
    /\ calls = <<>>
    /\ errors = <<>>
    /\ visited = <<>>

Report(file, e) == Append(errors, [file |-> file, error |-> e])

\* "if not crud_files: ... return"
NoFiles ==
    /\ pc = "start"
    /\ crud_files = <<>>
    /\ pc' = "returned"
    /\ UNCHANGED <<crud_files, names, sources, openFails, prompt_template, artifacts, fi,
                   functions, ui, calls, errors, visited>>
    /\ UNCHANGED <<xvars, fvars, cvars, tvars, nvars, svars>>

EnterLoop ==
    /\ pc = "start"
    /\ crud_files # <<>>
    /\ pc' = "loop"
    /\ fi' = 1
    /\ UNCHANGED <<crud_files, names, sources, openFails, prompt_template, artifacts,
                   functions, ui, calls, errors, visited>>
    /\ UNCHANGED <<xvars, fvars, cvars, tvars, nvars, svars>>

\* The exception leaves the loop instead of being caught per file.
ExtractionFailsMutant ==
    /\ pc = "loop"
    /\ fi <= Len(crud_files)
    /\ ~sources[fi].parses
    /\ visited' = Append(visited, crud_files[fi])
    /\ errors' = Report(crud_files[fi], "SyntaxError")
    /\ pc' = "aborted"
    /\ UNCHANGED <<crud_files, names, sources, openFails, prompt_template, artifacts, fi,
                   functions, ui, calls>>
    /\ UNCHANGED <<xvars, fvars, cvars, tvars, nvars, svars>>

\* extract_functions_and_docs raises: "except Exception ... continue"
ExtractionFails ==
    /\ pc = "loop"
    /\ fi <= Len(crud_files)
    /\ ~sources[fi].parses
    /\ visited' = Append(visited, crud_files[fi])
    /\ errors' = Report(crud_files[fi], "SyntaxError")
    /\ fi' = fi + 1
    /\ UNCHANGED <<crud_files, names, sources, openFails, prompt_template, artifacts, pc,
                   functions, ui, calls>>
    /\ UNCHANGED <<xvars, fvars, cvars, tvars, nvars, svars>>

\* The output file is opened before the list of functions is looked at.
SkipFileMutant ==
    /\ pc = "loop"
    /\ fi <= Len(crud_files)
    /\ sources[fi].parses
    /\ extract_functions_and_docs(sources[fi]) = <<>>
    /\ visited' = Append(visited, crud_files[fi])
    /\ functions' = <<>>
    /\ artifacts' = [artifacts EXCEPT ![OutputName(fi)] = File(<<TitleLine>>)]
    /\ fi' = fi + 1
    /\ UNCHANGED <<crud_files, names, sources, openFails, prompt_template, pc, ui, calls, errors>>
    /\ UNCHANGED <<xvars, fvars, cvars, tvars, nvars, svars>>

\* "if not functions: ... continue"
SkipFile ==
    /\ pc = "loop"
    /\ fi <= Len(crud_files)
    /\ sources[fi].parses
    /\ extract_functions_and_docs(sources[fi]) = <<>>
    /\ visited' = Append(visited, crud_files[fi])
    /\ functions' = <<>>
    /\ fi' = fi + 1
    /\ UNCHANGED <<crud_files, names, sources, openFails, prompt_template, artifacts, pc, ui, calls,
                   errors>>
    /\ UNCHANGED <<xvars, fvars, cvars, tvars, nvars, svars>>

\* open(output_file, "w") raises
OpenFails ==
    /\ pc = "loop"
    /\ fi <= Len(crud_files)
    /\ sources[fi].parses
    /\ extract_functions_and_docs(sources[fi]) # <<>>
    /\ crud_files[fi] \in openFails
    /\ visited' = Append(visited, crud_files[fi])
    /\ functions' = extract_functions_and_docs(sources[fi])
    /\ errors' = Report(crud_files[fi], "OSError")
    /\ fi' = fi + 1
    /\ UNCHANGED <<crud_files, names, sources, openFails, prompt_template, artifacts, pc, ui, calls>>
    /\ UNCHANGED <<xvars, fvars, cvars, tvars, nvars, svars>>

\* open(output_file, "w") and the title line
OpenFile ==
    /\ pc = "loop"
    /\ fi <= Len(crud_files)
    /\ sources[fi].parses
    /\ extract_functions_and_docs(sources[fi]) # <<>>
    /\ crud_files[fi] \notin openFails
    /\ visited' = Append(visited, crud_files[fi])
    /\ functions' = extract_functions_and_docs(sources[fi])
    /\ artifacts' = [artifacts EXCEPT ![OutputName(fi)] = File(<<TitleLine>>)]
    /\ ui' = 1
    /\ pc' = "units"
    /\ UNCHANGED <<crud_files, names, sources, openFails, prompt_template, fi, calls, errors>>
    /\ UNCHANGED <<xvars, fvars, cvars, tvars, nvars, svars>>

\* generate_doc raises before the service is called (template unreadable, or
\* format raises): the file is closed, the error reported, the loop continues.
PromptRaises ==
    /\ pc = "units"
    /\ ui <= Len(functions)
    /\ BuildPrompt(prompt_template, functions[ui].code).raised # "none"
    /\ errors' = Report(crud_files[fi], BuildPrompt(prompt_template, functions[ui].code).raised)
    /\ pc' = "loop"
    /\ fi' = fi + 1
    /\ UNCHANGED <<crud_files, names, sources, openFails, prompt_template, artifacts,
                   functions, ui, calls, visited>>
    /\ UNCHANGED <<xvars, fvars, cvars, tvars, nvars, svars>>

Call(ok) ==
    [file |-> crud_files[fi], unit |-> ui,
     prompt |-> BuildPrompt(prompt_template, functions[ui].code).value, ok |-> ok]

\* The failure is caught per unit: the loop goes on with the file's next unit.
GenerationFailsNextUnit ==
    /\ pc = "units"
    /\ ui <= Len(functions)
    /\ BuildPrompt(prompt_template, functions[ui].code).raised = "none"
    /\ calls' = Append(calls, Call(FALSE))
    /\ errors' = Report(crud_files[fi], "GenerationError")
    /\ ui' = ui + 1
    /\ UNCHANGED <<crud_files, names, sources, openFails, prompt_template, artifacts,
                   functions, pc, fi, visited>>
    /\ UNCHANGED <<xvars, fvars, cvars, tvars, nvars, svars>>

\* model.generate_content(prompt) (or response.text) raises
GenerationFails ==
    /\ pc = "units"
    /\ ui <= Len(functions)
    /\ BuildPrompt(prompt_template, functions[ui].code).raised = "none"
    /\ calls' = Append(calls, Call(FALSE))
    /\ errors' = Report(crud_files[fi], "GenerationError")
    /\ pc' = "loop"
    /\ fi' = fi + 1
    /\ UNCHANGED <<crud_files, names, sources, openFails, prompt_template, artifacts,
                   functions, ui, visited>>
    /\ UNCHANGED <<xvars, fvars, cvars, tvars, nvars, svars>>

\* The service is called a second time for the same unit.
GenerationReturnsMutant ==
    /\ pc = "units"
    /\ ui <= Len(functions)
    /\ BuildPrompt(prompt_template, functions[ui].code).raised = "none"
    /\ \E response \in Responses :
          artifacts' = [artifacts EXCEPT ![OutputName(fi)] =
                           File(Append(@.text, Section(functions[ui].name, strip(response))))]
    /\ calls' = calls \o <<Call(TRUE), Call(TRUE)>>
    /\ ui' = ui + 1
    /\ UNCHANGED <<crud_files, names, sources, openFails, prompt_template, pc, fi,
                   functions, errors, visited>>
    /\ UNCHANGED <<xvars, fvars, cvars, tvars, nvars, svars>>

\* generate_doc returns; the unit's section is written
GenerationReturns ==
    /\ pc = "units"
    /\ ui <= Len(functions)
    /\ BuildPrompt(prompt_template, functions[ui].code).raised = "none"
    /\ \E response \in Responses :
          artifacts' = [artifacts EXCEPT ![OutputName(fi)] =
                           File(Append(@.text, Section(functions[ui].name, strip(response))))]
    /\ calls' = Append(calls, Call(TRUE))
    /\ ui' = ui + 1
    /\ UNCHANGED <<crud_files, names, sources, openFails, prompt_template, pc, fi,
                   functions, errors, visited>>
    /\ UNCHANGED <<xvars, fvars, cvars, tvars, nvars, svars>>

\* the with block ends: "Documentation saved to ..."
FileSaved ==
    /\ pc = "units"
    /\ ui > Len(functions)
    /\ pc' = "loop"
    /\ fi' = fi + 1
    /\ UNCHANGED <<crud_files, names, sources, openFails, prompt_template, artifacts,
                   functions, ui, calls, errors, visited>>
    /\ UNCHANGED <<xvars, fvars, cvars, tvars, nvars, svars>>

\* "Documentation generation complete!"
Complete ==
    /\ pc = "loop"
    /\ fi > Len(crud_files)
    /\ pc' = "complete"
    /\ UNCHANGED <<crud_files, names, sources, openFails, prompt_template, artifacts, fi,
                   functions, ui, calls, errors, visited>>
    /\ UNCHANGED <<xvars, fvars, cvars, tvars, nvars, svars>>

MNext ==
    \/ NoFiles \/ EnterLoop \/ ExtractionFails \/ SkipFile \/ OpenFails \/ OpenFile
    \/ PromptRaises \/ GenerationFails \/ GenerationReturns \/ FileSaved \/ Complete

MIdle ==
    /\ crud_files = <<>>
    /\ names = <<>>
    /\ sources = <<>>
    /\ openFails = {}
    /\ prompt_template = [readable |-> FALSE, text |-> <<>>]
    /\ artifacts = <<>>
    /\ pc = "idle"
    /\ fi = 0
    /\ functions = <<>>
    /\ ui = 0
    /\ calls = <<>>
    /\ errors = <<>>
    /\ visited = <<>>

\* ========================================== doc_generator.py: combine_markdown_files
\* Characters of file names and titles, with their code points.
Ord(c) ==
    CASE c = " " -> 32 [] c = "." -> 46
      [] c = "A" -> 65 [] c = "B" -> 66 [] c = "D" -> 68 [] c = "M" -> 77
      [] c = "_" -> 95
      [] c = "a" -> 97 [] c = "b" -> 98 [] c = "d" -> 100 [] c = "m" -> 109
      [] OTHER -> 0
LowerCase == {"a", "b", "d", "m"}
UpperCase == {"A", "B", "D", "M"}
IsLetter(c) == c \in LowerCase \cup UpperCase
Upper(c) == CASE c = "a" -> "A" [] c = "b" -> "B" [] c = "d" -> "D" [] c = "m" -> "M"
              [] OTHER -> c
Lower(c) == CASE c = "A" -> "a" [] c = "B" -> "b" [] c = "D" -> "d" [] c = "M" -> "m"
              [] OTHER -> c

\* s < t as Python compares strings
RECURSIVE StrLess(_, _)
StrLess(s, t) ==
    IF t = <<>> THEN FALSE
    ELSE IF s = <<>> THEN TRUE
    ELSE IF Head(s) = Head(t) THEN StrLess(Tail(s), Tail(t))
    ELSE Ord(Head(s)) < Ord(Head(t))

\* list.sort() of a list of distinct strings
RECURSIVE sort(_)
sort(l) ==
    IF l = <<>> THEN <<>>
    ELSE LET least == CHOOSE i \in DOMAIN l : \A j \in DOMAIN l : ~StrLess(l[j], l[i])
         IN <<l[least]>> \o sort(SubSeq(l, 1, least - 1) \o SubSeq(l, least + 1, Len(l)))

\* str.title(): a letter that follows a letter is lowered, any other letter raised
RECURSIVE TitleFrom(_, _)
TitleFrom(s, i) ==
    IF i > Len(s) THEN <<>>
    ELSE <<IF i > 1 /\ IsLetter(s[i - 1]) THEN Lower(s[i]) ELSE Upper(s[i])>>
         \o TitleFrom(s, i + 1)
\* str.lower() where str.title() is meant
titleMutant(s) == [i \in DOMAIN s |-> Lower(s[i])]
title(s) == TitleFrom(s, 1)

\* filename.replace("_", " ").replace(".md", "").title()
ModuleTitle(filename) ==
    title(replace(replace(filename, <<"_">>, <<" ">>), <<".", "m", "d">>, <<>>))

\* str.split(sep): the pieces between the occurrences of sep, left to right
RECURSIVE SplitFrom(_, _, _, _)
SplitFrom(s, i, sep, piece) ==
    IF i > Len(s) THEN <<piece>>
    ELSE IF StartsWith(s, i, sep) THEN <<piece>> \o SplitFrom(s, i + Len(sep), sep, <<>>)
    ELSE SplitFrom(s, i + 1, sep, Append(piece, s[i]))
split(s, sep) == SplitFrom(s, 1, sep, <<>>)

\* s has sub as a substring
Contains(s, sub) == \E i \in 1..(Len(s) + 1) : StartsWith(s, i, sub)

ProjectTitle == <<"# Project: CRUD Functionality Documentation", "\n\n">>
Heading(t) == <<"\n\n", "# ">> \o t \o <<"\n\n">>
PageBreakMarker == <<"\n\n", "---", "\n\n", "\\newpage", "\n\n">>
ErrorBlock(filename) ==
    <<"\n\n", "## Error processing ">> \o filename \o <<"\n", "error text", "\n\n">>

MdNames ==
    { <<"a", ".", "m", "d">>, <<"b", ".", "m", "d">>,
      <<"a", "_", "b", ".", "m", "d">>, <<"B", ".", "m", "d">> }

\* What an input Markdown file can hold.
MdContents ==
    { <<>>, <<"x">>, <<"\n\n", "y", "\n">>,
      <<"z", "\n\n", "---", "\n\n", "\\newpage", "\n\n", "z">> }

StaleOutput == File(<<"old">>)
NotReturned == [returned |-> "-", raised |-> "-"]

CInit ==
    /\ md_files \in {l \in SeqsUpTo(MdNames, MaxMd) :
                        \A i, j \in DOMAIN l : i # j => l[i] # l[j]}
    /\ combined_content = <<>>
    /\ mi = 0
    /\ cpc = "start"
    /\ readLog = <<>>
    /\ output_file \in {NoFile, StaleOutput}
    /\ c_outcome = NotReturned

\* "if not md_files: print [ERROR] ...; return"
CombineNoFiles ==
    /\ cpc = "start"
    /\ md_files = <<>>
    /\ c_outcome' = [returned |-> "None", raised |-> "none"]
    /\ cpc' = "done"
    /\ UNCHANGED <<md_files, combined_content, mi, readLog, output_file>>
    /\ UNCHANGED <<xvars, fvars, mvars, tvars, nvars, svars>>

\* md_files.sort(); combined_content = "# Project: ..."
CombineStart ==
    /\ cpc = "start"
    /\ md_files # <<>>
    /\ md_files' = sort(md_files)
    /\ combined_content' = ProjectTitle
    /\ mi' = 1
    /\ cpc' = "loop"
    /\ UNCHANGED <<readLog, output_file, c_outcome>>
    /\ UNCHANGED <<xvars, fvars, mvars, tvars, nvars, svars>>

\* One turn of the loop, the file read: heading, content, page break.
CombineFile ==
    /\ cpc = "loop"
    /\ mi <= Len(md_files)
    /\ \E content \in MdContents :
          /\ combined_content' =
                combined_content \o Heading(ModuleTitle(md_files[mi])) \o strip(content)
                \o (IF mi < Len(md_files) THEN PageBreakMarker ELSE <<>>)
          /\ readLog' = Append(readLog, [file |-> md_files[mi], ok |-> TRUE,
                                         content |-> content])
    /\ mi' = mi + 1
    /\ UNCHANGED <<md_files, cpc, output_file, c_outcome>>
    /\ UNCHANGED <<xvars, fvars, mvars, tvars, nvars, svars>>

\* The exception ends the loop: the files after this one are not read.
CombineFileFailsMutant ==
    /\ cpc = "loop"
    /\ mi <= Len(md_files)
    /\ combined_content' = combined_content \o ErrorBlock(md_files[mi])
    /\ readLog' = Append(readLog, [file |-> md_files[mi], ok |-> FALSE, content |-> <<>>])
    /\ mi' = Len(md_files) + 1
    /\ UNCHANGED <<md_files, cpc, output_file, c_outcome>>
    /\ UNCHANGED <<xvars, fvars, mvars, tvars, nvars, svars>>

\* One turn of the loop, open or read raising: the except branch.
CombineFileFails ==
    /\ cpc = "loop"
    /\ mi <= Len(md_files)
    /\ combined_content' = combined_content \o ErrorBlock(md_files[mi])
    /\ readLog' = Append(readLog, [file |-> md_files[mi], ok |-> FALSE, content |-> <<>>])
    /\ mi' = mi + 1
    /\ UNCHANGED <<md_files, cpc, output_file, c_outcome>>
    /\ UNCHANGED <<xvars, fvars, mvars, tvars, nvars, svars>>

\* The combined file is written.
CombineWrite ==
    /\ cpc = "loop"
    /\ mi > Len(md_files)
    /\ output_file' = File(combined_content)
    /\ c_outcome' = [returned |-> "None", raised |-> "none"]
    /\ cpc' = "done"
    /\ UNCHANGED <<md_files, combined_content, mi, readLog>>
    /\ UNCHANGED <<xvars, fvars, mvars, tvars, nvars, svars>>

\* Opening the combined file raises: "[ERROR] Could not write to file"
CombineWriteFails ==
    /\ cpc = "loop"
    /\ mi > Len(md_files)
    /\ c_outcome' = [returned |-> "None", raised |-> "none"]
    /\ cpc' = "write failed"
    /\ UNCHANGED <<md_files, combined_content, mi, readLog, output_file>>
    /\ UNCHANGED <<xvars, fvars, mvars, tvars, nvars, svars>>

CNext ==
    \/ CombineNoFiles \/ CombineStart \/ CombineFile \/ CombineFileFails
    \/ CombineWrite \/ CombineWriteFails

CIdle ==
    /\ md_files = <<>>
    /\ combined_content = <<>>
    /\ mi = 0
    /\ cpc = "idle"
    /\ readLog = <<>>
    /\ output_file = NoFile
    /\ c_outcome = NotReturned

\* ------------------------------------------ the module title, applied and re-applied
NameChars == {".", "m", "d", "_", "M"}

NInit ==
    /\ n_filename \in SeqsUpTo(NameChars, MaxNameLen)
    /\ n_title = <<>>
    /\ n_again = <<>>
    /\ npc = "filename"

\* title = filename.replace("_", " ").replace(".md", "").title()
TitleDerived ==
    /\ npc = "filename"
    /\ n_title' = ModuleTitle(n_filename)
    /\ npc' = "title"
    /\ UNCHANGED <<n_filename, n_again>>
    /\ UNCHANGED <<xvars, fvars, mvars, cvars, tvars, svars>>

\* the same transform, fed the title
TitleDerivedAgain ==
    /\ npc = "title"
    /\ n_again' = ModuleTitle(n_title)
    /\ npc' = "again"
    /\ UNCHANGED <<n_filename, n_title>>
    /\ UNCHANGED <<xvars, fvars, mvars, cvars, tvars, svars>>

NNext == TitleDerived \/ TitleDerivedAgain

NIdle ==
    /\ n_filename = <<>>
    /\ n_title = <<>>
    /\ n_again = <<>>
    /\ npc = "idle"


\* ===================================== srs_generator.py: create_table_of_contents
\* str(n), n >= 0
RECURSIVE str(_)
str(n) ==
    LET digit == <<"0", "1", "2", "3", "4", "5", "6", "7", "8", "9">>[(n % 10) + 1]
    IN IF n < 10 THEN <<digit>> ELSE Append(str(n \div 10), digit)

Row(num, text, page) == [num |-> num, text |-> text, page |-> page]

ModuleNames == {<<"a">>, <<"b">>, <<"a", "_", "b">>}

TInit ==
    /\ modules \in SeqsUpTo(ModuleNames, MaxModules)
    /\ toc_data = <<>>
    /\ page_num = 0
    /\ ti = 0
    /\ tpc = "start"

\* toc_data = [header, three front-matter rows]; page_num = 6
TocFrontMatter ==
    /\ tpc = "start"
    /\ toc_data' = << Row(0, <<"Section">>, <<"Page">>),
                      Row(1, <<"Introduction">>, <<"3">>),
                      Row(2, <<"System Overview">>, <<"4">>),
                      Row(3, <<"Functional Requirements">>, <<"5">> ) >>
    /\ page_num' = 6
    /\ ti' = 1
    /\ tpc' = "modules"
    /\ UNCHANGED modules
    /\ UNCHANGED <<xvars, fvars, mvars, cvars, nvars, svars>>

\* The page number is not advanced after a module row.
TocModuleMutant ==
    /\ tpc = "modules"
    /\ ti <= Len(modules)
    /\ toc_data' = Append(toc_data,
                          Row(ti + 3, title(modules[ti]) \o <<" Module Requirements">>,
                              str(page_num)))
    /\ page_num' = page_num
    /\ ti' = ti + 1
    /\ UNCHANGED <<modules, tpc>>
    /\ UNCHANGED <<xvars, fvars, mvars, cvars, nvars, svars>>

\* for i, module in enumerate(modules, 4): one row, page_num += 2
TocModule ==
    /\ tpc = "modules"
    /\ ti <= Len(modules)
    /\ toc_data' = Append(toc_data,
                          Row(ti + 3, title(modules[ti]) \o <<" Module Requirements">>,
                              str(page_num)))
    /\ page_num' = page_num + 2
    /\ ti' = ti + 1
    /\ UNCHANGED <<modules, tpc>>
    /\ UNCHANGED <<xvars, fvars, mvars, cvars, nvars, svars>>

\* toc_data.extend([...]): the two back-matter rows
TocBackMatter ==
    /\ tpc = "modules"
    /\ ti > Len(modules)
    /\ toc_data' = toc_data \o
          << Row(Len(modules) + 4, <<"Non-Functional Requirements">>, str(page_num)),
             Row(Len(modules) + 5, <<"Appendices">>, str(page_num + 1)) >>
    /\ tpc' = "done"
    /\ UNCHANGED <<modules, page_num, ti>>
    /\ UNCHANGED <<xvars, fvars, mvars, cvars, nvars, svars>>

TNext == TocFrontMatter \/ TocModule \/ TocBackMatter

TIdle ==
    /\ modules = <<>>
    /\ toc_data = <<>>
    /\ page_num = 0
    /\ ti = 0
    /\ tpc = "idle"

\* ======================================= srs_generator.py: generate_srs_document
DocMd == <<"_", "d", "o", "c", ".", "m", "d">>
\* Base names that glob "*.md" can return.
DocNames == { <<"a">> \o DocMd, <<"b">> \o DocMd, <<"a", ".", "m", "d">>,
              <<"a">> \o DocMd \o DocMd }
DocContents == { <<"d">>, <<"{", "d", "}">> }
DocFile(name, readable, content) ==
    [name |-> name, readable |-> readable, content |-> content]
DocFilesSet ==
    { DocFile(n, FALSE, <<>>) : n \in DocNames }
       \cup { DocFile(n, TRUE, c) : n \in DocNames, c \in DocContents }

\* documentation[module_name] = value on a dict kept in insertion order
DictSet(d, key, value) ==
    IF \E i \in DOMAIN d : d[i].module = key
    THEN [i \in DOMAIN d |-> IF d[i].module = key
                             THEN [module |-> key, docs |-> value] ELSE d[i]]
    ELSE Append(d, [module |-> key, docs |-> value])

\* The loop of read_documentation_files over files i.., from the dict d.
RECURSIVE ReadFrom(_, _, _)
ReadFrom(files, i, d) ==
    IF i > Len(files) THEN d
    ELSE IF files[i].readable
         THEN ReadFrom(files, i + 1,
                       DictSet(d, replace(files[i].name, DocMd, <<>>), files[i].content))
         ELSE ReadFrom(files, i + 1, d)
read_documentation_files(files) == ReadFrom(files, 1, <<>>)
Keys(d) == [i \in DOMAIN d |-> d[i].module]

\* get_default_prompt()
DefaultPrompt == <<"default", "{", "function_docs", "}", "default">>
\* srs_prompt_template.txt: absent, not readable for another reason, or a text.
SrsTemplate(state, text) == [state |-> state, text |-> text]
SrsTemplates ==
    { SrsTemplate("missing", <<>>),
      SrsTemplate("denied", <<>>),
      SrsTemplate("ok", <<"t", "{", "function_docs", "}">>),
      SrsTemplate("ok", <<"t">>),
      SrsTemplate("ok", <<"{", "code", "}", "{", "function_docs", "}">>),
      SrsTemplate("ok", <<"{", "t">>) }

\* load_prompt_template: only FileNotFoundError is caught
load_prompt_template(file) ==
    IF file.state = "missing" THEN Formatted(DefaultPrompt)
    ELSE IF file.state = "denied" THEN Raised("PermissionError")
    ELSE Formatted(file.text)

\* The value of the replacement field called name under
\* format(function_docs=function_docs).
SrsFieldValue(name, function_docs) ==
    IF name = <<>> THEN Raised("IndexError")
    ELSE IF name = <<"function_docs">> THEN Formatted(function_docs)
    ELSE Raised("KeyError")

RECURSIVE SrsFormatFrom(_, _, _, _)
SrsFormatFrom(t, i, function_docs, out) ==
    IF i > Len(t) THEN Formatted(out)
    ELSE IF t[i] = "{" THEN
        IF i < Len(t) /\ t[i + 1] = "{"
        THEN SrsFormatFrom(t, i + 2, function_docs, Append(out, "{"))
        ELSE LET j == NextBrace(t, i + 1) IN
             IF j = 0 \/ t[j] = "{" THEN Raised("ValueError")
             ELSE LET v == SrsFieldValue(SubSeq(t, i + 1, j - 1), function_docs) IN
                  IF v.raised # "none" THEN v
                  ELSE SrsFormatFrom(t, j + 1, function_docs, out \o v.value)
    ELSE IF t[i] = "}" THEN
        IF i < Len(t) /\ t[i + 1] = "}"
        THEN SrsFormatFrom(t, i + 2, function_docs, Append(out, "}"))
        ELSE Raised("ValueError")
    ELSE SrsFormatFrom(t, i + 1, function_docs, Append(out, t[i]))

\* generate_srs_content up to the prompt: load the template, then
\* prompt_template.format(function_docs=function_docs), both outside the try.
SrsPrompt(file, function_docs) ==
    IF load_prompt_template(file).raised # "none" THEN load_prompt_template(file)
    ELSE SrsFormatFrom(load_prompt_template(file).value, 1, function_docs, <<>>)

SrsResponses ==
    { <<>>, <<"r">>,
      <<" ", "*", "*", "H", "*", "*", "\n\n", " ", "\n\n", "r", "\n\n">> }
\* f"Error generating content for this module: {str(e)}"
ErrorContent == <<"Error generating content for this module: ", "error text">>

\* One paragraph of add_module_requirements, stripped: a subheading when it is
\* wrapped in "**", body text otherwise (a Spacer follows either).
Styled(p) ==
    IF StartsWith(p, 1, <<"*", "*">>) /\ Len(p) >= 2 /\ StartsWith(p, Len(p) - 1, <<"*", "*">>)
    THEN [style |-> "heading2", text |-> replace(p, <<"*", "*">>, <<>>)]
    ELSE [style |-> "body", text |-> p]
\* srs_content.split('\n\n'), the blank pieces dropped
Paragraphs(srs_content) ==
    LET kept == SelectSeq(split(srs_content, <<"\n\n">>), LAMBDA p : strip(p) # <<>>)
    IN [i \in DOMAIN kept |-> Styled(strip(kept[i]))]

Part(k, name, body) == [k |-> k, name |-> name, body |-> body]
\* add_module_requirements: heading, paragraphs, PageBreak
ModuleSection(module_name, srs_content) ==
    Part("module", title(module_name) \o <<" Module Requirements">>, Paragraphs(srs_content))

NotFinished == [returned |-> "-", raised |-> "-"]

SInit ==
    /\ \E n \in 0..MaxDocs :
          doc_files \in {f \in [1..n -> DocFilesSet] :
                            \A i, j \in 1..n : f[i].name = f[j].name => i = j}
    /\ srs_template \in SrsTemplates
    /\ documentation = <<>>
    /\ story = <<>>
    /\ si = 0
    /\ srs_calls = <<>>
    /\ srs_result = NotFinished
    /\ spc = "start"

\* read_documentation_files raises FileNotFoundError: "return False"
SrsNoFiles ==
    /\ spc = "start"
    /\ doc_files = <<>>
    /\ srs_result' = [returned |-> "False", raised |-> "-"]
    /\ spc' = "returned"
    /\ UNCHANGED <<doc_files, srs_template, documentation, story, si, srs_calls>>
    /\ UNCHANGED <<xvars, fvars, mvars, cvars, tvars, nvars>>

\* documentation = self.read_documentation_files(); story = []
SrsRead ==
    /\ spc = "start"
    /\ doc_files # <<>>
    /\ documentation' = read_documentation_files(doc_files)
    /\ story' = <<>>
    /\ spc' = "title"
    /\ UNCHANGED <<doc_files, srs_template, si, srs_calls, srs_result>>
    /\ UNCHANGED <<xvars, fvars, mvars, cvars, tvars, nvars>>

\* create_title_page(story), then create_table_of_contents is entered with
\* list(documentation.keys())
SrsTitlePage ==
    /\ spc = "title"
    /\ story' = Append(story, Part("title", <<>>, <<>>))
    /\ modules' = Keys(documentation)
    /\ toc_data' = <<>>
    /\ page_num' = 0
    /\ ti' = 0
    /\ tpc' = "start"
    /\ spc' = "toc"
    /\ UNCHANGED <<doc_files, srs_template, documentation, si, srs_calls, srs_result>>
    /\ UNCHANGED <<xvars, fvars, mvars, cvars, nvars>>

\* story.append(toc_table) at the end of create_table_of_contents
SrsToc ==
    /\ spc = "toc"
    /\ tpc = "done"
    /\ story' = Append(story, Part("toc", <<>>, toc_data))
    /\ tpc' = "idle"
    /\ spc' = "introduction"
    /\ UNCHANGED <<modules, toc_data, page_num, ti>>
    /\ UNCHANGED <<doc_files, srs_template, documentation, si, srs_calls, srs_result>>
    /\ UNCHANGED <<xvars, fvars, mvars, cvars, nvars>>

SrsIntroduction ==
    /\ spc = "introduction"
    /\ story' = Append(story, Part("introduction", <<"1. Introduction">>, <<>>))
    /\ spc' = "overview"
    /\ UNCHANGED <<doc_files, srs_template, documentation, si, srs_calls, srs_result>>
    /\ UNCHANGED <<xvars, fvars, mvars, cvars, tvars, nvars>>

SrsOverview ==
    /\ spc = "overview"
    /\ story' = Append(story, Part("overview", <<"2. System Overview">>, <<>>))
    /\ spc' = "functional"
    /\ UNCHANGED <<doc_files, srs_template, documentation, si, srs_calls, srs_result>>
    /\ UNCHANGED <<xvars, fvars, mvars, cvars, tvars, nvars>>

\* The "3. Functional Requirements" heading that precedes the module sections.
SrsFunctional ==
    /\ spc = "functional"
    /\ story' = Append(story, Part("functional", <<"3. Functional Requirements">>, <<>>))
    /\ si' = 1
    /\ spc' = "modules"
    /\ UNCHANGED <<doc_files, srs_template, documentation, srs_calls, srs_result>>
    /\ UNCHANGED <<xvars, fvars, mvars, cvars, tvars, nvars>>

SrsCall(ok) ==
    [module |-> documentation[si].module,
     prompt |-> SrsPrompt(srs_template, documentation[si].docs).value, ok |-> ok]

\* The template cannot be loaded or formatted: the exception leaves
\* generate_srs_content, the loop and generate_srs_document.
SrsPromptRaises ==
    /\ spc = "modules"
    /\ si <= Len(documentation)
    /\ SrsPrompt(srs_template, documentation[si].docs).raised # "none"
    /\ srs_result' = [returned |-> "-",
                      raised |-> SrsPrompt(srs_template, documentation[si].docs).raised]
    /\ spc' = "raised"
    /\ UNCHANGED <<doc_files, srs_template, documentation, story, si, srs_calls>>
    /\ UNCHANGED <<xvars, fvars, mvars, cvars, tvars, nvars>>

\* generate_content raises: the error text becomes the module's content.
SrsGenerationFails ==
    /\ spc = "modules"
    /\ si <= Len(documentation)
    /\ SrsPrompt(srs_template, documentation[si].docs).raised = "none"
    /\ srs_calls' = Append(srs_calls, SrsCall(FALSE))
    /\ story' = Append(story, ModuleSection(documentation[si].module, ErrorContent))
    /\ si' = si + 1
    /\ UNCHANGED <<doc_files, srs_template, documentation, srs_result, spc>>
    /\ UNCHANGED <<xvars, fvars, mvars, cvars, tvars, nvars>>

\* generate_content returns: response.text.strip() becomes the module's content.
SrsGenerationReturns ==
    /\ spc = "modules"
    /\ si <= Len(documentation)
    /\ SrsPrompt(srs_template, documentation[si].docs).raised = "none"
    /\ srs_calls' = Append(srs_calls, SrsCall(TRUE))
    /\ \E text \in SrsResponses :
          story' = Append(story, ModuleSection(documentation[si].module, strip(text)))
    /\ si' = si + 1
    /\ UNCHANGED <<doc_files, srs_template, documentation, srs_result, spc>>
    /\ UNCHANGED <<xvars, fvars, mvars, cvars, tvars, nvars>>

\* create_non_functional_requirements(story)
SrsNonFunctional ==
    /\ spc = "modules"
    /\ si > Len(documentation)
    /\ story' = Append(story, Part("nfr", <<"Non-Functional Requirements">>, <<>>))
    /\ spc' = "build"
    /\ UNCHANGED <<doc_files, srs_template, documentation, si, srs_calls, srs_result>>
    /\ UNCHANGED <<xvars, fvars, mvars, cvars, tvars, nvars>>

\* doc.build(story): "return True", or "return False" when it raises
SrsBuild ==
    /\ spc = "build"
    /\ \E r \in {"True", "False"} : srs_result' = [returned |-> r, raised |-> "-"]
    /\ spc' = "returned"
    /\ UNCHANGED <<doc_files, srs_template, documentation, story, si, srs_calls>>
    /\ UNCHANGED <<xvars, fvars, mvars, cvars, tvars, nvars>>

SNext ==
    \/ SrsNoFiles \/ SrsRead \/ SrsTitlePage \/ SrsToc \/ SrsIntroduction
    \/ SrsOverview \/ SrsFunctional \/ SrsPromptRaises \/ SrsGenerationFails
    \/ SrsGenerationReturns \/ SrsNonFunctional \/ SrsBuild

SIdle ==
    /\ doc_files = <<>>
    /\ srs_template = SrsTemplate("missing", <<>>)
    /\ documentation = <<>>
    /\ story = <<>>
    /\ si = 0
    /\ srs_calls = <<>>
    /\ srs_result = NotFinished
    /\ spc = "idle"

\* ========================================================== the specifications
\* The per-unit pipeline.
Init == MInit /\ XIdle /\ FIdle /\ CIdle /\ TIdle /\ NIdle /\ SIdle
Next == MNext
Spec == Init /\ [][Next]_vars

\* One call of the extractor on any small syntax tree.
InitExtract == XInit /\ FIdle /\ MIdle /\ CIdle /\ TIdle /\ NIdle /\ SIdle
NextExtract == XNext
SpecExtract == InitExtract /\ [][NextExtract]_vars

\* One prompt built from any small template.
InitFormat == FInit /\ XIdle /\ MIdle /\ CIdle /\ TIdle /\ NIdle /\ SIdle
NextFormat == FNext
SpecFormat == InitFormat /\ [][NextFormat]_vars

\* One run of the aggregator.
InitCombine == CInit /\ XIdle /\ FIdle /\ MIdle /\ TIdle /\ NIdle /\ SIdle
NextCombine == CNext
SpecCombine == InitCombine /\ [][NextCombine]_vars

\* One table of contents.
InitToc == TInit /\ XIdle /\ FIdle /\ MIdle /\ CIdle /\ NIdle /\ SIdle
NextToc == TNext
SpecToc == InitToc /\ [][NextToc]_vars

\* One run of the report composer; the table of contents is built by the
\* actions of create_table_of_contents.
InitSrs == SInit /\ XIdle /\ FIdle /\ MIdle /\ CIdle /\ TIdle /\ NIdle
NextSrs == SNext \/ TNext
SpecSrs == InitSrs /\ [][NextSrs]_vars

\* The module title of any short file name, derived twice.
InitTitle == NInit /\ XIdle /\ FIdle /\ MIdle /\ CIdle /\ TIdle /\ SIdle
NextTitle == NNext
SpecTitle == InitTitle /\ [][NextTitle]_vars

\* ================================================================== properties
RECURSIVE Sum(_)
Sum(ns) == IF ns = <<>> THEN 0 ELSE Head(ns) + Sum(Tail(ns))

\* The units extraction yields for file i (none when it does not parse).
UnitsOf(i) == IF sources[i].parses THEN extract_functions_and_docs(sources[i]) ELSE <<>>
TotalUnits == Sum([i \in DOMAIN sources |-> Len(UnitsOf(i))])
CallsFor(i) == SelectSeq(calls, LAMBDA c : c.file = i)
ZeroUnits(i) == sources[i].parses /\ UnitsOf(i) = <<>>
Ended == pc \in {"complete", "returned"}
\* main is at a point from which one of its steps can be taken.
MainCanStep ==
    \/ pc = "start"
    \/ pc = "loop" /\ fi \in 1..(Len(crud_files) + 1)
    \/ pc = "units" /\ fi \in 1..Len(crud_files) /\ ui \in 1..(Len(functions) + 1)

\* C1: whatever files fail (parse, open, prompt or generation), every file of the
\* list is taken up in turn and the run reaches its end: main is never stuck or
\* aborted before "complete", and at "complete" the files taken up are exactly
\* the input list.
C1_EveryFileProcessed ==
    /\ ~Ended => MainCanStep
    /\ pc = "complete" => visited = crud_files
    /\ pc = "returned" => crud_files = <<>>
    /\ pc \in {"loop", "units"} =>
          visited = SubSeq(crud_files, 1, IF pc = "loop" THEN fi - 1 ELSE fi)

\* A finished run where a file before the last one failed.
C1_Witness ==
    /\ pc = "complete"
    /\ Len(crud_files) >= 2
    /\ visited = crud_files
    /\ \E k \in DOMAIN errors : errors[k].file < Len(crud_files)

\* C4: a file whose extraction yields no unit is skipped: the step taken for it
\* leaves its artifact (and every other) as it was, makes no call, reports no
\* error and goes on to the next file; no call or error is ever recorded for it.
C4_ZeroUnitFileSkipped ==
    /\ [](\A i \in DOMAIN sources : ZeroUnits(i) =>
              /\ CallsFor(i) = <<>>
              /\ \A k \in DOMAIN errors : errors[k].file # i)
    /\ [][(pc = "loop" /\ fi <= Len(crud_files) /\ ZeroUnits(fi)) =>
              /\ artifacts' = artifacts
              /\ calls' = calls
              /\ errors' = errors
              /\ pc' = "loop"
              /\ fi' = fi + 1
              /\ visited' = Append(visited, fi)]_vars

\* A finished run that skipped a file without units whose artifact of an earlier
\* run is still there, and documented a later file.
C4_Witness ==
    /\ pc = "complete"
    /\ \E i \in DOMAIN sources :
          /\ ZeroUnits(i)
          /\ artifacts[OutputName(i)] = Stale
          /\ \E j \in DOMAIN sources : j > i /\ CallsFor(j) # <<>>

\* C5 as stated: at the end of the run the number of service calls equals the
\* number of units extracted.
C5_CallsEqualUnits == pc = "complete" => Len(calls) = TotalUnits

\* C5 amended: no unit is called twice, the calls of a file are for its units in
\* extraction order without a gap, so the calls never exceed the units; and the
\* totals are equal at the end of a run that reported no error for a file with
\* units.
C5_AtMostOneCallPerUnit ==
    /\ \A i \in DOMAIN sources :
          /\ Len(CallsFor(i)) <= Len(UnitsOf(i))
          /\ \A k \in DOMAIN CallsFor(i) : CallsFor(i)[k].unit = k
    /\ \A k \in DOMAIN calls : calls[k].file \in DOMAIN sources
    /\ (pc = "complete" /\ \A k \in DOMAIN errors : UnitsOf(errors[k].file) = <<>>)
          => Len(calls) = TotalUnits

\* A finished run with one file cut short by a failure after a first call.
C5_Witness ==
    /\ pc = "complete"
    /\ errors # <<>>
    /\ \E i \in DOMAIN sources : 0 < Len(CallsFor(i)) /\ Len(CallsFor(i)) < Len(UnitsOf(i))

Placeholder == <<"{", "code", "}">>

\* C9 as stated: with a template that lacks the {code} placeholder no prompt is
\* produced and the service is never called.
C9_NoCallWithoutPlaceholder ==
    (prompt_template.readable /\ ~Contains(prompt_template.text, Placeholder))
        => calls = <<>>

\* The function-like definitions of a parsed file, in any order.
FunctionLikeNodes(src) == {i \in DOMAIN src.nodes : FunctionLike(src.nodes[i])}
CountNamed(records, name) == Len(SelectSeq(records, LAMBDA r : r.name = name))

\* C10 as stated: for a file that parses, one record per function-like definition
\* (plain or async, at any depth), each with the definition's name: as many
\* records as definitions, and per name as many records as definitions so named.
C10_OneRecordPerDefinition ==
    (xpc = "done" /\ x_source.parses) =>
        /\ Len(x_result.value) = Cardinality(FunctionLikeNodes(x_source))
        /\ \A name \in Names :
              CountNamed(x_result.value, name) =
                 Cardinality({i \in FunctionLikeNodes(x_source) : x_source.nodes[i].name = name})

\* The braces of t all belong to {code} placeholders.
OnlyPlaceholderBraces(t) ==
    LET rest == replace(t, Placeholder, <<>>)
    IN \A i \in DOMAIN rest : rest[i] \notin {"{", "}"}

\* C8 as stated: for every template that contains {code}, the prompt is the
\* template with the code in place of the placeholder and nothing else changed.
C8_PromptIsTemplateWithCode ==
    (fpc = "done" /\ f_template.readable /\ Contains(f_template.text, Placeholder)) =>
        f_result = Formatted(replace(f_template.text, Placeholder, f_code))

\* C8 amended: for every template that contains {code} and no brace outside its
\* {code} placeholders, the prompt is the template with the code, verbatim
\* (braces of the code included), in place of each placeholder and nothing else
\* changed.
C8_PromptWhenNoOtherBrace ==
    (fpc = "done" /\ f_template.readable /\ Contains(f_template.text, Placeholder)
       /\ OnlyPlaceholderBraces(f_template.text)) =>
        f_result = Formatted(replace(f_template.text, Placeholder, f_code))

\* A prompt built from a template with text around its placeholder, for code
\* that itself holds a placeholder.
C8_Witness ==
    /\ fpc = "done"
    /\ f_result.raised = "none"
    /\ OnlyPlaceholderBraces(f_template.text)
    /\ Len(f_template.text) > Len(Placeholder)
    /\ Contains(f_template.text, Placeholder)
    /\ Contains(f_code, Placeholder)
    /\ Contains(f_result.value, Placeholder)

\* The n-th row's page number as a number.
DigitValue(c) == CHOOSE d \in 0..9 : str(d) = <<c>>
RECURSIVE int(_)
int(s) == IF Len(s) = 1 THEN DigitValue(s[1])
          ELSE 10 * int(SubSeq(s, 1, Len(s) - 1)) + DigitValue(s[Len(s)])
Page(k) == int(toc_data[k + 1].page)
Entries == Len(toc_data) - 1

\* C3: the finished table has 3 + (module count) + 2 rows below the header; the
\* pages are 3, 4, 5, then 6, 8, ... for the modules, then the next two numbers;
\* at every moment the pages written so far are strictly increasing.
C3_TocCountAndPages ==
    /\ tpc \in {"modules", "done"} =>
          /\ \A k \in 1..(Entries - 1) : Page(k) < Page(k + 1)
          /\ Entries >= 3 /\ Page(1) = 3 /\ Page(2) = 4 /\ Page(3) = 5
          /\ \A k \in 4..Entries : k <= 3 + Len(modules) => Page(k) = 6 + 2 * (k - 4)
    /\ tpc = "done" =>
          /\ Entries = 3 + Len(modules) + 2
          /\ Page(Entries - 1) = 6 + 2 * Len(modules)
          /\ Page(Entries) = Page(Entries - 1) + 1

\* A finished table for three modules (pages beyond 9).
C3_Witness ==
    /\ tpc = "done"
    /\ Len(modules) >= 3
    /\ Len(toc_data[Len(toc_data)].page) = 2

\* What the loop appends for the i-th file, page break aside.
Block(i) ==
    IF readLog[i].ok
    THEN Heading(ModuleTitle(readLog[i].file)) \o strip(readLog[i].content)
    ELSE ErrorBlock(readLog[i].file)

\* The first position at or after p where sub starts in s, or 0.
RECURSIVE Find(_, _, _)
Find(s, sub, p) ==
    IF p + Len(sub) - 1 > Len(s) THEN 0
    ELSE IF StartsWith(s, p, sub) THEN p ELSE Find(s, sub, p + 1)

\* Blocks i.. of the files processed so far occur in s in this order, one after
\* the other, from position p on.
RECURSIVE BlocksInOrder(_, _, _)
BlocksInOrder(s, i, p) ==
    IF i > Len(readLog) THEN TRUE
    ELSE LET q == Find(s, Block(i), p)
         IN q # 0 /\ BlocksInOrder(s, i + 1, q + Len(Block(i)))

Sorted(l) == \A i, j \in DOMAIN l : i < j => StrLess(l[i], l[j])
Returned == cpc \in {"done", "write failed"}
\* combine_markdown_files is at a point from which one of its steps can be taken.
CombineCanStep ==
    \/ cpc = "start"
    \/ cpc = "loop" /\ mi \in 1..(Len(md_files) + 1)

\* C7: a read failure is caught for its file alone: the loop goes on (it is never
\* stuck), every file is taken in sorted order, the combined text holds, in that
\* order, the error block of each file that failed and the heading and content
\* of each file that was read, and after the last file the text is written as it
\* is (unless the write itself fails).
C7_ReadFailureIsolated ==
    /\ ~Returned => CombineCanStep
    /\ cpc = "loop" =>
          /\ Sorted(md_files)
          /\ Len(readLog) = mi - 1
          /\ \A i \in DOMAIN readLog : readLog[i].file = md_files[i]
          /\ BlocksInOrder(combined_content, 1, 1)
    /\ (Returned /\ md_files # <<>>) =>
          /\ Len(readLog) = Len(md_files)
          /\ BlocksInOrder(combined_content, 1, 1)
          /\ cpc = "done" => output_file = File(combined_content)

\* A written combination of three files of which the first two could not be read
\* and the last could.
C7_Witness ==
    /\ cpc = "done"
    /\ Len(md_files) >= 3
    /\ ~readLog[1].ok /\ ~readLog[2].ok /\ readLog[3].ok
    /\ readLog[3].content # <<>>
    /\ output_file.exists

\* C2 as stated: split on the page-break marker, the written text has as many
\* segments as there were input files, the i-th segment is that of the i-th file
\* in sorted order, and so the marker follows every file but the last.  (Files
\* whose own content holds the marker text are left aside.)
C2_OneSegmentPerFile ==
    (cpc = "done" /\ md_files # <<>>
       /\ \A i \in DOMAIN readLog : ~Contains(readLog[i].content, PageBreakMarker)) =>
        LET segments == split(output_file.text, PageBreakMarker)
        IN /\ Len(segments) = Len(md_files)
           /\ Sorted(md_files)
           /\ \A i \in DOMAIN segments : i \in DOMAIN readLog => Contains(segments[i], Block(i))

\* C6 as stated: with no Markdown file in the folder the call fails with a
\* NoInputError, which its caller can tell from a successful aggregation, and
\* nothing is written.
C6_NoInputError ==
    (Returned /\ md_files = <<>>) =>
        /\ c_outcome.raised = "NoInputError"
        /\ output_file \in {NoFile, StaleOutput}

\* C12: the module title is a fixed point of the transform that derives it:
\* deriving a title from a title gives that title again.
C12_TitleIdempotent == npc = "again" => n_again = n_title

\* A title derived twice from a name in which removing ".md" leaves text that
\* again reads ".md".
C12_Witness ==
    /\ npc = "again"
    /\ Contains(replace(n_filename, <<".", "m", "d">>, <<>>), <<".", "m", "d">>)
    /\ n_title # <<>>

\* The sections of an artifact, below its title line.
SectionNames(text) == [k \in 1..(Len(text) - 1) |-> text[k + 1].name]
UnitNames(i) == [k \in DOMAIN UnitsOf(i) |-> UnitsOf(i)[k].name]
FailedCalls(i) == SelectSeq(calls, LAMBDA c : c.file = i /\ ~c.ok)
SucceededCalls(i) == SelectSeq(calls, LAMBDA c : c.file = i /\ c.ok)
\* File i has been left by the loop.
Left(i) == pc = "complete" \/ (pc \in {"loop", "units"} /\ fi > i)
\* Nothing stands in the way of the first call for file i.
FirstCallPossible(i) ==
    /\ UnitsOf(i) # <<>>
    /\ i \notin openFails
    /\ BuildPrompt(prompt_template, UnitsOf(i)[1].code).raised = "none"

\* C13: once the call for unit k of a file has failed, the file is left. The
\* failing step writes nothing: it finds the artifact holding the title and the
\* sections of units 1..k-1, leaves it so, and moves to the next file. From then
\* on the failed call is the file's last call (none for units k+1..), the file is
\* never the current file again, the error stays reported for it, and later files
\* are taken up as usual: at the end of the run every later file that can be
\* called for has been.
C13_FailureAbortsFileOnly ==
    /\ [](\A i \in DOMAIN sources : FailedCalls(i) # <<>> =>
             LET k == FailedCalls(i)[1].unit
             IN /\ Len(FailedCalls(i)) = 1
                /\ Len(CallsFor(i)) = k
                /\ Len(SucceededCalls(i)) = k - 1
                /\ pc \in {"loop", "units"} => fi > i
                /\ \E e \in DOMAIN errors :
                      errors[e] = [file |-> i, error |-> "GenerationError"]
                /\ pc = "complete" =>
                      \A j \in DOMAIN sources : j > i =>
                         /\ \E v \in DOMAIN visited : visited[v] = j
                         /\ FirstCallPossible(j) => CallsFor(j) # <<>>)
    /\ [][(calls' # calls /\ ~calls'[Len(calls')].ok) =>
             /\ pc = "units"
             /\ calls'[Len(calls')].file = fi /\ calls'[Len(calls')].unit = ui
             /\ artifacts' = artifacts
             /\ Len(artifacts[OutputName(fi)].text) = ui
             /\ SectionNames(artifacts[OutputName(fi)].text) = SubSeq(UnitNames(fi), 1, ui - 1)
             /\ pc' = "loop"
             /\ fi' = fi + 1]_vars

\* A finished run in which the first of a file's two units failed and a later
\* file was documented in full.
C13_Witness ==
    /\ pc = "complete"
    /\ \E i, j \in DOMAIN sources :
          /\ i < j
          /\ Len(UnitsOf(i)) >= 2
          /\ FailedCalls(i) # <<>> /\ FailedCalls(i)[1].unit = 1
          /\ FailedCalls(j) = <<>>
          /\ Len(CallsFor(j)) = Len(UnitsOf(j)) /\ Len(UnitsOf(j)) >= 2

\* The artifact of file i has been written by this run.
Written(i) ==
    /\ artifacts[OutputName(i)].exists
    /\ artifacts[OutputName(i)].text # <<>>
    /\ artifacts[OutputName(i)].text[1] = TitleLine

\* C15: for a file the loop has left, the artifact <filename>_doc.md has been
\* written exactly when extraction returned at least one unit and the artifact
\* could be opened, whether or not generate_doc failed later; a written artifact
\* is the title followed by the sections of a prefix of the file's units in
\* extraction order, one per call that succeeded: all units if none failed, none
\* (the title alone) if the first one did.
C15_ArtifactIsPrefixOfUnits ==
    \A i \in DOMAIN sources : Left(i) =>
        /\ Written(i) <=> (UnitsOf(i) # <<>> /\ i \notin openFails)
        /\ Written(i) =>
              SectionNames(artifacts[OutputName(i)].text)
                 = SubSeq(UnitNames(i), 1, Len(SucceededCalls(i)))

\* C11 as stated, for the per-function template: when prompt_template.txt is
\* missing the run does not end as a success and writes no artifact.
C11_MissingTemplateIsHardError ==
    ~prompt_template.readable =>
        /\ pc # "complete"
        /\ \A i \in DOMAIN sources : ~Written(i)

\* The parts the report is made of, the heading "3. Functional Requirements"
\* that introduces the module sections aside.
MainParts == SelectSeq(story, LAMBDA part : part.k # "functional")
SrsEnded == srs_result # NotFinished

\* C14 as stated: a run that has loaded at least one module ends with the parts
\* title page, table of contents, introduction, system overview, one section per
\* loaded module, non-functional requirements, in this order; the sections are
\* headed as the module rows of the table of contents, in the same order; one
\* call was made per module, in that order; and the section of a module whose
\* call failed holds the error text.
C14_ReportInFixedOrder ==
    (SrsEnded /\ documentation # <<>>) =>
        LET n == Len(documentation)
        IN /\ Len(MainParts) = n + 5
           /\ MainParts[1].k = "title"
           /\ MainParts[2].k = "toc"
           /\ MainParts[3].k = "introduction"
           /\ MainParts[4].k = "overview"
           /\ MainParts[n + 5].k = "nfr"
           /\ Len(MainParts[2].body) = n + 6
           /\ Len(srs_calls) = n
           /\ \A i \in 1..n :
                 /\ MainParts[4 + i].k = "module"
                 /\ MainParts[4 + i].name = MainParts[2].body[4 + i].text
                 /\ MainParts[4 + i].name
                       = title(documentation[i].module) \o <<" Module Requirements">>
                 /\ srs_calls[i].module = documentation[i].module
                 /\ ~srs_calls[i].ok => MainParts[4 + i].body = Paragraphs(ErrorContent)

====
